---------------------------- MODULE Spec2Model ----------------------------
(***************************************************************************)
(* A model of check-hw-compat.py: the audit of a machine's PCI and other   *)
(* devices and of its loaded kernel modules against a driver deprecation   *)
(* database, for an upgrade to target_version.                             *)
(*                                                                         *)
(* A str the program takes apart (module names, hardware aliases, glob     *)
(* patterns, device_id fields) is the sequence of its code points, the     *)
(* numbers ord() gives.  A str it only compares or prints is a TLA+        *)
(* string.  A Python value                                                 *)
(* that may be None is a sequence of at most one element: None is << >>    *)
(* and a value x is <<x>>.                                                 *)
(***************************************************************************)
EXTENDS Integers, Sequences, FiniteSets, TLC

VARIABLES
    compat_db,        \* load_compat_db(): the list of database entries
    exc_patterns,     \* the exception database: a list of glob patterns
    skip_kmod,        \* args.skip_kmod
    target_version,   \* args.target_version
    lspci,            \* the PCI devices lspci lists, in its order
    sysfs,            \* the non-PCI modalias files find lists, in its order
    lsmod,            \* the module names lsmod lists
    sys_module,       \* os.listdir('/sys/module')
    kmod_index,       \* the aliases ./kmod-idx has a module for
    pc,               \* the statement of get_incompatible the run is at
    pci_id_entry_map, \* get_incompatible: pci_id_entry_map
    mod_entry_map,    \* get_incompatible: mod_entry_map
    modules,          \* get_incompatible: modules
    dev_entries,      \* get_incompatible: dev_entries
    dev_modules,      \* get_incompatible: dev_modules
    mod_entries,      \* get_incompatible: mod_entries
    kmod,             \* get_incompatible: kmod ("unset", "None", "KMod")
    ctx,              \* KMod.__init__: the libkmod context ("null", "held", "released")
    acquired,         \* calls of kmod_new that returned a context, this run
    released,         \* releases of that context, this run
    builtin_modules,  \* get_incompatible: builtin_modules
    idx,              \* get_incompatible_devices: the position of the loop
    st,               \* the loops' st, as last assigned
    st_ent,           \* the entry st was computed from
    queries,          \* the has_module calls of this run: [dev, answer]
    rv_devices,       \* get_incompatible_devices: rv
    rv_modules,       \* get_incompatible_modules: rv
    result,           \* the value get_incompatible returns
    reports           \* the results of the runs completed so far

vars == <<compat_db, exc_patterns, skip_kmod, target_version, lspci, sysfs,
          lsmod, sys_module, kmod_index, pc, pci_id_entry_map, mod_entry_map,
          modules, dev_entries, dev_modules,
          mod_entries, kmod, ctx, acquired, released,
          builtin_modules, idx, st, st_ent, queries, rv_devices, rv_modules,
          result, reports>>

inputs == <<compat_db, exc_patterns, skip_kmod, target_version, lspci, sysfs,
            lsmod, sys_module, kmod_index>>

(***************************************************************************)
(* Python values                                                           *)
(***************************************************************************)
None == << >>

Some(x) == <<x>>

IsNone(o) == o = << >>

Val(o) == o[1]

RECURSIVE SeqToSet(_)
SeqToSet(s) == IF s = << >> THEN {} ELSE {Head(s)} \cup SeqToSet(Tail(s))

\* A call that returns v, and a call that ends in the exception e
Returns(v) == [val |-> v]

Raises(e) == [exc |-> e]

Raised(r) == "exc" \in DOMAIN r

\* The characters of codes 32 to 95 and of codes 97 to 126
Printable ==
    << " ", "!", "\"", "#", "$", "%", "&", "'", "(", ")", "*", "+",
       ",", "-", ".", "/", "0", "1", "2", "3", "4", "5", "6", "7",
       "8", "9", ":", ";", "<", "=", ">", "?", "@", "A", "B", "C",
       "D", "E", "F", "G", "H", "I", "J", "K", "L", "M", "N", "O",
       "P", "Q", "R", "S", "T", "U", "V", "W", "X", "Y", "Z", "[",
       "\\", "]", "^", "_" >>

Lower ==
    << "a", "b", "c", "d", "e", "f", "g", "h", "i", "j", "k", "l",
       "m", "n", "o", "p", "q", "r", "s", "t", "u", "v", "w", "x",
       "y", "z", "{", "|", "}", "~" >>

\* ord(ch), for a character of the two tables
Ord(ch) ==
    IF \E i \in DOMAIN Lower : Lower[i] = ch
    THEN 96 + (CHOOSE i \in DOMAIN Lower : Lower[i] = ch)
    ELSE 31 + (CHOOSE i \in DOMAIN Printable : Printable[i] = ch)

\* The str that the TLA+ string s writes
Str(s) == [k \in 1..Len(s) |-> Ord(SubSeq(s, k, k))]

\* The code points the program names
Space == 32          \* ' '
Bang == 33           \* '!'
Star == 42           \* '*'
Plus == 43           \* '+'
Hyphen == 45         \* '-'
Zero == 48           \* '0'
Colon == 58          \* ':'
Question == 63       \* '?'
CapitalX == 88       \* 'X'
LBracket == 91       \* '['
RBracket == 93       \* ']'
Underscore == 95     \* '_'
SmallX == 120        \* 'x'

\* class Status
Status == {"ok", "removed", "unmaintained"}

\* name.replace('-', '_')
normalize_module_name(name) ==
    [k \in 1..Len(name) |-> IF name[k] = Hyphen THEN Underscore ELSE name[k]]

(***************************************************************************)
(* The compatibility database and its two indexes                          *)
(***************************************************************************)
\* The value of one character of an ASCII literal as a base 16 digit, -1
\* when it is none
HexDigit(c) ==
    IF c \in 48..57 THEN c - 48
    ELSE IF c \in 97..102 THEN c - 87
    ELSE IF c \in 65..70 THEN c - 55
    ELSE -1

RECURSIVE HexInt(_, _)
\* The digits of x read from the left onto acc, the underscores between
\* them passed over
HexInt(x, acc) ==
    IF x = << >> THEN acc
    ELSE IF Head(x) = Underscore THEN HexInt(Tail(x), acc)
    ELSE HexInt(Tail(x), 16 * acc + HexDigit(Head(x)))

\* The characters above code 127 that str.isspace() holds for
UnicodeSpace ==
    {133, 160, 5760} \cup 8192..8202 \cup {8232, 8233, 8239, 8287, 12288}

\* The zeros of the Unicode decimal digits above code 127; the digits one
\* to nine of a zero are the nine code points after it
DecimalZeros ==
    { 1632, 1776, 1984, 2406, 2534, 2662, 2790, 2918, 3046,
      3174, 3302, 3430, 3558, 3664, 3792, 3872, 4160, 4240,
      6112, 6160, 6470, 6608, 6784, 6800, 6992, 7088, 7232,
      7248, 42528, 43216, 43264, 43472, 43504, 43600, 44016, 65296,
      66720, 68912, 69734, 69872, 69942, 70096, 70384, 70736, 70864,
      71248, 71360, 71472, 71904, 72016, 72784, 73040, 73120, 92768,
      92864, 93008, 120782, 120792, 120802, 120812, 120822, 123200, 123632,
      125264, 130032 }

\* The value of the Unicode decimal digit c, -1 when c is none
ToDecimal(c) ==
    IF \E z \in DecimalZeros : z <= c /\ c <= z + 9
    THEN c - (CHOOSE z \in DecimalZeros : z <= c /\ c <= z + 9)
    ELSE -1

\* What int() parses in the place of the str x.  An ASCII str is parsed as
\* it is.  Of any other str every character from code 127 on becomes a
\* space when str.isspace() holds for it, its ASCII digit when it is a
\* decimal digit, and otherwise a '?' at which the text ends.
TransformDecimalAndSpaceToASCII(x) ==
    IF \A k \in DOMAIN x : x[k] < 128 THEN x
    ELSE LET stops == {k \in DOMAIN x :
                          /\ x[k] >= 127
                          /\ x[k] \notin UnicodeSpace
                          /\ ToDecimal(x[k]) < 0}
         IN  [k \in {j \in DOMAIN x : \A i \in stops : j <= i} |->
                 IF x[k] < 127 THEN x[k]
                 ELSE IF x[k] \in UnicodeSpace THEN Space
                 ELSE IF k \in stops THEN Question
                 ELSE Zero + ToDecimal(x[k])]

\* The ASCII characters int() drops around a literal: codes 9 to 13 and 32
Whitespace == 9..13 \cup {Space}

RECURSIVE lstrip(_)
lstrip(s) == IF s # << >> /\ Head(s) \in Whitespace THEN lstrip(Tail(s)) ELSE s

RECURSIVE rstrip(_)
rstrip(s) ==
    IF s # << >> /\ s[Len(s)] \in Whitespace THEN rstrip(SubSeq(s, 1, Len(s) - 1)) ELSE s

\* The digits of an int() literal: one digit or more, with single
\* underscores between digits only
HexDigits(d) ==
    /\ d # << >>
    /\ \A k \in DOMAIN d : d[k] = Underscore \/ HexDigit(d[k]) >= 0
    /\ d[1] # Underscore
    /\ d[Len(d)] # Underscore
    /\ \A k \in 1..(Len(d) - 1) : ~(d[k] = Underscore /\ d[k + 1] = Underscore)

\* An int() literal s without the sign it may open with
Unsigned(s) == IF s # << >> /\ Head(s) \in {Plus, Hyphen} THEN Tail(s) ELSE s

\* An unsigned int() literal u of base 16 without the 0x or 0X it may open
\* with and the one underscore that may follow that prefix
Unprefixed(u) ==
    IF Len(u) >= 2 /\ u[1] = Zero /\ u[2] \in {SmallX, CapitalX}
    THEN IF Len(u) >= 3 /\ u[3] = Underscore
         THEN SubSeq(u, 4, Len(u)) ELSE SubSeq(u, 3, Len(u))
    ELSE u

\* The number the digits d write, or the ValueError of what is no digits
Magnitude(d) ==
    IF HexDigits(d) THEN Returns(HexInt(d, 0)) ELSE Raises("ValueError")

\* The number the int() literal s writes in base 16: an optional sign, an
\* optional prefix, and the digits.  Anything else is a ValueError.
Literal16(s) ==
    LET m == Magnitude(Unprefixed(Unsigned(s)))
    IN  IF ~Raised(m) /\ Head(s) = Hyphen THEN Returns(0 - m.val) ELSE m

\* int(x, 16): x is transformed to ASCII, the white space around the
\* literal is dropped, and the literal is read
int16(x) == Literal16(rstrip(lstrip(TransformDecimalAndSpaceToASCII(x))))

RECURSIVE Split(_, _, _)
\* s.split(sep): cur is the field being read
Split(s, sep, cur) ==
    IF s = << >> THEN <<cur>>
    ELSE IF Head(s) = sep THEN <<cur>> \o Split(Tail(s), sep, << >>)
    ELSE Split(Tail(s), sep, Append(cur, Head(s)))

RECURSIVE ints(_)
\* tuple(int(x, 16) for x in fields): the numbers, or the ValueError of the
\* first field that int() does not take
ints(fields) ==
    IF fields = << >> THEN Returns(<< >>)
    ELSE LET head == int16(Head(fields))
             tail == ints(Tail(fields))
         IN  IF Raised(head) THEN head
             ELSE IF Raised(tail) THEN tail
             ELSE Returns(<<head.val>> \o tail.val)

\* get_pci_id_entry_map.parse_pci_id
parse_pci_id(pci_id) == ints(Split(pci_id, Colon, << >>))

\* A dict comprehension over db: of the entries that pass Keep and share a
\* key, the last one of db is the value.
LastIndex(db, keys, key) ==
    CHOOSE k \in DOMAIN keys :
        /\ keys[k] = Some(key)
        /\ \A j \in DOMAIN keys : keys[j] = Some(key) => j <= k

DictOf(db, keys) ==
    [key \in {Val(keys[k]) : k \in {j \in DOMAIN keys : ~IsNone(keys[j])}}
        |-> db[LastIndex(db, keys, key)]]

RECURSIVE pci_id_keys(_)
\* get_pci_id_entry_map: what parse_pci_id gives for each entry the
\* comprehension keeps, None for the entries it leaves out
pci_id_keys(db) ==
    IF db = << >> THEN << >>
    ELSE <<IF Head(db).device_type = "pci" /\ Head(db).device_id # << >>
           THEN Some(parse_pci_id(Head(db).device_id)) ELSE None>>
         \o pci_id_keys(Tail(db))

\* get_pci_id_entry_map: the dict, or the ValueError of a kept entry whose
\* device_id parse_pci_id does not take
get_pci_id_entry_map(db) ==
    LET keys == pci_id_keys(db)
    IN  IF \E k \in DOMAIN keys : ~IsNone(keys[k]) /\ Raised(Val(keys[k]))
        THEN Raises("ValueError")
        ELSE Returns(DictOf(db, [k \in DOMAIN keys |->
                                   IF IsNone(keys[k]) THEN None
                                   ELSE Some(Val(keys[k]).val)]))

get_module_entry_map(db) ==
    DictOf(db, [k \in DOMAIN db |->
                  IF db[k].device_id = << >>
                  THEN Some(normalize_module_name(db[k].driver_name)) ELSE None])

\* dict.get(key): None when key is None or is no key of the dict
Get(map, okey) ==
    IF ~IsNone(okey) /\ Val(okey) \in DOMAIN map THEN Some(map[Val(okey)]) ELSE None

(***************************************************************************)
(* get_status                                                              *)
(***************************************************************************)
\* get_status with its two tests in the other order
get_status_maintained_first(entry, version) ==
    IF IsNone(entry) THEN "ok"
    ELSE IF version \notin Val(entry).maintained_in_rhel THEN "unmaintained"
    ELSE IF version \notin Val(entry).available_in_rhel THEN "removed"
    ELSE "ok"

get_status(entry, version) ==
    IF IsNone(entry) THEN "ok"
    ELSE IF version \notin Val(entry).available_in_rhel THEN "removed"
    ELSE IF version \notin Val(entry).maintained_in_rhel THEN "unmaintained"
    ELSE "ok"

(***************************************************************************)
(* load_exc_db: each pattern goes through fnmatch.translate, and the       *)
(* results are joined into one regular expression that re.match applies     *)
(* to the whole name.                                                      *)
(***************************************************************************)
\* s.find(c, k): the first place from k on where s has c, 0 when it has none
Find(s, c, k) ==
    IF \E p \in k..Len(s) : s[p] = c
    THEN CHOOSE p \in k..Len(s) : s[p] = c /\ \A r \in k..(p - 1) : s[r] # c
    ELSE 0

\* translate, after a [: the place in rest of the ] that closes the class,
\* a ! and then a ] at its start being part of it; 0 when nothing closes it
ClassEnd(rest) ==
    LET j1 == IF Len(rest) >= 1 /\ rest[1] = Bang THEN 2 ELSE 1
        j2 == IF Len(rest) >= j1 /\ rest[j1] = RBracket THEN j1 + 1 ELSE j1
    IN  Find(rest, RBracket, j2)

RECURSIVE ChunksFrom(_, _, _)
\* translate: stuff cut at the hyphens that make ranges; i is where the
\* chunk being read starts and k where the search for its hyphen starts
ChunksFrom(stuff, i, k) ==
    LET d == Find(stuff, Hyphen, k)
    IN  IF d = 0 THEN <<SubSeq(stuff, i, Len(stuff))>>
        ELSE <<SubSeq(stuff, i, d - 1)>> \o ChunksFrom(stuff, d + 1, d + 3)

\* translate: chunks, a last chunk that is empty giving its hyphen to the
\* chunk before it
Chunks(stuff) ==
    LET c == ChunksFrom(stuff, 1, IF stuff[1] = Bang THEN 3 ELSE 2)
        n == Len(c)
    IN  IF c[n] # << >> THEN c
        ELSE [k \in 1..(n - 1) |-> IF k = n - 1 THEN Append(c[k], Hyphen) ELSE c[k]]

RECURSIVE RemoveEmptyRanges(_, _)
\* translate: from the last chunk down to the second, a range whose first
\* character is above its last is taken out with both its ends
RemoveEmptyRanges(chunks, k) ==
    IF k < 2 THEN chunks
    ELSE LET a == chunks[k - 1]
             b == chunks[k]
         IN  IF a[Len(a)] > b[1]
             THEN RemoveEmptyRanges(
                      [j \in 1..(Len(chunks) - 1) |->
                          IF j < k - 1 THEN chunks[j]
                          ELSE IF j = k - 1 THEN SubSeq(a, 1, Len(a) - 1) \o Tail(b)
                          ELSE chunks[j + 1]],
                      k - 1)
             ELSE RemoveEmptyRanges(chunks, k - 1)

\* c is a character of the class written from chunks joined by hyphens,
\* the first of them being first and the ranges starting at chunk from: c
\* is a character of a chunk, or lies in the range from the last
\* character of a chunk to the first of the next.  With from = 2 the
\* hyphen after the first chunk is a character of the class and makes no
\* range.
ClassMember(chunks, first, from, c) ==
    \/ \E p \in DOMAIN first : first[p] = c
    \/ \E k \in 2..Len(chunks) : \E p \in DOMAIN chunks[k] : chunks[k][p] = c
    \/ from = 2 /\ c = Hyphen
    \/ \E k \in from..(Len(chunks) - 1) :
           /\ chunks[k][Len(chunks[k])] <= c
           /\ c <= chunks[k + 1][1]

\* The character class translate writes from the chunks that are left
\* matches c: nothing is left and it matches no character; a lone ! is
\* left and it matches every character; otherwise a leading ! negates it,
\* and after a first chunk that is the ! alone the ranges start at the
\* second chunk.
ClassMatches(chunks, c) ==
    IF chunks = << << >> >> THEN FALSE
    ELSE IF chunks = << <<Bang>> >> THEN TRUE
    ELSE IF chunks[1] # << >> /\ chunks[1][1] = Bang
         THEN ~ClassMember(chunks, Tail(chunks[1]),
                           IF Len(chunks[1]) = 1 THEN 2 ELSE 1, c)
    ELSE ClassMember(chunks, chunks[1], 1, c)

\* translate: the chunks of stuff that are left when the empty ranges are
\* taken out
Ranges(raw) == RemoveEmptyRanges(raw, Len(raw))

\* The character class translate writes for [stuff] matches c
InClass(stuff, c) == ClassMatches(Ranges(Chunks(stuff)), c)

RECURSIVE GlobMatch(_, _)
\* re.match(fnmatch.translate(pat), name): the whole of name matches pat
GlobMatch(pat, name) ==
    IF pat = << >> THEN name = << >>
    ELSE IF Head(pat) = Star
         THEN \/ GlobMatch(Tail(pat), name)
              \/ name # << >> /\ GlobMatch(pat, Tail(name))
    ELSE IF Head(pat) = Question
         THEN name # << >> /\ GlobMatch(Tail(pat), Tail(name))
    ELSE IF Head(pat) = LBracket /\ ClassEnd(Tail(pat)) # 0
         THEN LET rest == Tail(pat)
                  j == ClassEnd(rest)
              IN  /\ name # << >>
                  /\ InClass(SubSeq(rest, 1, j - 1), Head(name))
                  /\ GlobMatch(SubSeq(rest, j + 1, Len(rest)), Tail(name))
    ELSE name # << >> /\ Head(name) = Head(pat) /\ GlobMatch(Tail(pat), Tail(name))

\* the predicate load_exc_db returns
exc_pred(patterns, name) ==
    IF patterns = << >> THEN FALSE
    ELSE \E k \in DOMAIN patterns : GlobMatch(patterns[k], name)

(***************************************************************************)
(* Devices                                                                 *)
(***************************************************************************)
RECURSIVE StartsWith(_, _)
\* s.startswith(prefix)
StartsWith(s, prefix) ==
    IF prefix = << >> THEN TRUE
    ELSE s # << >> /\ Head(s) = Head(prefix) /\ StartsWith(Tail(s), Tail(prefix))

\* The '' that parse_id returns in the place of the number when lspci gives
\* no SVendor or SDevice.  The numbers parse_id reads are the hexadecimal
\* digits id_re matched, so none of them is negative.
EmptyStr == -1

\* get_pci_devices.parse_id, the number: x is None or the hex digits in brackets
parse_id(x) == IF IsNone(x) THEN EmptyStr ELSE int16(Val(x)).val

\* Device.__init__ and its subclasses.  modules holds the normalized names
\* as a set: the program reads the list only for its members and emptiness.
Device(kind, sysfs_path, modalias, mods, link, pci_id) ==
    [kind |-> kind, sysfs_path |-> sysfs_path, modalias |-> modalias,
     modules |-> {normalize_module_name(m) : m \in mods},
     current_module |-> link, pci_id |-> pci_id]

\* get_pci_devices: one PCIDevice per block of lspci's output
get_pci_devices(blocks) ==
    [k \in DOMAIN blocks |->
        Device("pci", blocks[k].Slot, blocks[k].modalias,
               SeqToSet(blocks[k].Module), blocks[k].link,
               <<parse_id(Some(blocks[k].Vendor)), parse_id(Some(blocks[k].Device)),
                 parse_id(blocks[k].SVendor), parse_id(blocks[k].SDevice)>>)]

\* get_misc_devices, one file: the MiscDevice, its current module inferred
\* when it has none, modprobe names exactly one module and that name, as
\* modprobe wrote it, is a loaded module
MiscDevice(file, loaded_modules) ==
    LET dev == Device("misc", file.path, file.modalias, file.resolve, file.link, << >>)
    IN  IF /\ IsNone(dev.current_module)
           /\ Cardinality(file.resolve) = 1
           /\ file.resolve \cap loaded_modules # {}
        THEN [dev EXCEPT !.current_module = Some(CHOOSE m \in file.resolve : TRUE)]
        ELSE dev

c_pci == Str("pci:")
c_x86cpu == Str("x86cpu:")

RECURSIVE get_misc_devices(_, _)
\* get_misc_devices: the files find lists, less the pci: and x86cpu: ones
get_misc_devices(files, loaded_modules) ==
    IF files = << >> THEN << >>
    ELSE (IF \/ StartsWith(Head(files).modalias, c_pci)
             \/ StartsWith(Head(files).modalias, c_x86cpu)
          THEN << >>
          ELSE <<MiscDevice(Head(files), loaded_modules)>>)
         \o get_misc_devices(Tail(files), loaded_modules)

\* get_loaded_modules
get_loaded_modules(names) == {normalize_module_name(l) : l \in names}

(***************************************************************************)
(* match_devices                                                           *)
(***************************************************************************)
Prefix(t, n) == SubSeq(t, 1, n)

\* dev.pci_id[:idx] as a key of the dict: a tuple that holds '' is equal to
\* no tuple of numbers
pci_key(pci_id, n) ==
    IF \E k \in 1..n : pci_id[k] = EmptyStr THEN None ELSE Some(Prefix(pci_id, n))

\* the loop run over (2, 3, 4): the entry of the shortest prefix that is a key
pci_lookup_shortest_first(id_map, pci_id) ==
    IF ~IsNone(Get(id_map, pci_key(pci_id, 2)))
    THEN Get(id_map, pci_key(pci_id, 2))
    ELSE IF ~IsNone(Get(id_map, pci_key(pci_id, 3)))
    THEN Get(id_map, pci_key(pci_id, 3))
    ELSE Get(id_map, pci_key(pci_id, 4))

\* the for idx in (4, 3, 2) loop: the entry of the longest prefix that is a key
pci_lookup(id_map, pci_id) ==
    IF ~IsNone(Get(id_map, pci_key(pci_id, 4)))
    THEN Get(id_map, pci_key(pci_id, 4))
    ELSE IF ~IsNone(Get(id_map, pci_key(pci_id, 3)))
    THEN Get(id_map, pci_key(pci_id, 3))
    ELSE Get(id_map, pci_key(pci_id, 2))

RECURSIVE pci_matched(_, _)
\* the dev_entries the loop over pci_devs appends
pci_matched(pci_devs, id_map) ==
    IF pci_devs = << >> THEN << >>
    ELSE LET dev == Head(pci_devs)
             ent == pci_lookup(id_map, dev.pci_id)
         IN  (IF IsNone(ent) THEN << >>
              ELSE <<[dev |-> dev, mod |-> None, ent |-> ent]>>)
             \o pci_matched(Tail(pci_devs), id_map)

RECURSIVE pci_deferred(_, _)
\* the devices the loop over pci_devs appends to check_mod_devs
pci_deferred(pci_devs, id_map) ==
    IF pci_devs = << >> THEN << >>
    ELSE (IF IsNone(pci_lookup(id_map, Head(pci_devs).pci_id))
          THEN <<Head(pci_devs)>> ELSE << >>)
         \o pci_deferred(Tail(pci_devs), id_map)

\* the loop over check_mod_devs
mod_matched(check_mod_devs, mod_map) ==
    [k \in DOMAIN check_mod_devs |->
        [dev |-> check_mod_devs[k],
         mod |-> check_mod_devs[k].current_module,
         ent |-> Get(mod_map, check_mod_devs[k].current_module)]]

\* check_mod_devs with the deferred PCI devices put before the others
check_mod_devs_pci_first(pci_devs, misc_devs, id_map) ==
    pci_deferred(pci_devs, id_map) \o misc_devs

\* check_mod_devs once the loop over pci_devs has run
check_mod_devs_of(pci_devs, misc_devs, id_map) ==
    misc_devs \o pci_deferred(pci_devs, id_map)

\* match_devices: the first value returned
match_dev_entries(pci_devs, misc_devs, id_map, mod_map) ==
    pci_matched(pci_devs, id_map)
    \o mod_matched(check_mod_devs_of(pci_devs, misc_devs, id_map),
                   mod_map)

\* match_devices: the second value returned
match_dev_modules(pci_devs, misc_devs) ==
    UNION {d.modules : d \in SeqToSet(pci_devs) \cup SeqToSet(misc_devs)}

(***************************************************************************)
(* The machine and the database the runs read.  Names and aliases:         *)
(***************************************************************************)
n_igb == Str("igb")
n_snd_hda == Str("snd_hda")
n_snd_hda_raw == Str("snd-hda")
h_8086 == Str("8086")
h_1533 == Str("1533")
h_0 == Str("0000")
h_1 == Str("0001")
a_pci1 == Str("pci:v8086d1533")
a_pci2 == Str("pci:v8086d1533bc03")
a_pci3 == Str("pci:v8086d1533sd0001")
a_cpu == Str("x86cpu:ven")
a_usb1 == Str("usb:v1")
a_acpi == Str("acpi:X")
a_hid == Str("hid:b")

\* The device_id fields of the database.  id_2 begins with the
\* extended arabic-indic digit zero, code 1776, and an x; id_3 has a
\* no-break space, code 160, before its last field; id_4 ends in the next
\* line character, code 133; id_bad has an empty field.
id_2 == <<1776>> \o Str("x8086:1533")
id_3 == Str("8086:1533:") \o <<160>> \o Str("0")
id_4 == id_3 \o Str(":00") \o <<133>>
id_bad == Str("8086:")

\* The blocks lspci may print, in slot order: a bound device with no
\* candidate module, a device with no subsystem IDs that is bound to a
\* module other than its candidate, and an unbound one with one candidate
\* module.  The 3-element prefix of the last is a key that no prefix of the
\* one before it is.
PciCatalogue ==
    << [Slot |-> "0000:00:01.0", Vendor |-> h_8086, Device |-> h_1533,
        SVendor |-> Some(h_0), SDevice |-> Some(h_0), modalias |-> a_pci1,
        Module |-> << >>, link |-> Some(n_igb)],
       [Slot |-> "0000:00:02.0", Vendor |-> h_8086, Device |-> h_1533,
        SVendor |-> None, SDevice |-> None, modalias |-> a_pci2,
        Module |-> <<n_igb>>, link |-> Some(n_snd_hda)],
       [Slot |-> "0000:00:03.0", Vendor |-> h_8086, Device |-> h_1533,
        SVendor |-> Some(h_0), SDevice |-> Some(h_1), modalias |-> a_pci3,
        Module |-> <<n_igb>>, link |-> None] >>

\* The other modalias files find may list, in its order, each with the
\* module names modprobe --resolve-alias prints for it and the module its
\* driver/module link names.
MiscCatalogue ==
    << [path |-> "/sys/devices/usb1", modalias |-> a_usb1,
        resolve |-> {n_snd_hda_raw}, link |-> None],
       [path |-> "/sys/devices/platform/acpi0", modalias |-> a_acpi,
        resolve |-> {n_igb}, link |-> None],
       [path |-> "/sys/devices/hid0", modalias |-> a_hid,
        resolve |-> {}, link |-> Some(n_snd_hda)] >>

\* The entries the database may hold, in its order.
DbCatalogue ==
    << [device_type |-> "pci", device_id |-> id_2, driver_name |-> n_igb,
        available_in_rhel |-> {7, 8}, maintained_in_rhel |-> {7}],
       [device_type |-> "pci", device_id |-> id_3, driver_name |-> n_igb,
        available_in_rhel |-> {7}, maintained_in_rhel |-> {7, 9}],
       [device_type |-> "pci", device_id |-> id_4, driver_name |-> << >>,
        available_in_rhel |-> {7, 8, 9}, maintained_in_rhel |-> {7, 8, 9}],
       [device_type |-> "pci", device_id |-> id_bad, driver_name |-> << >>,
        available_in_rhel |-> {7, 8, 9}, maintained_in_rhel |-> {7, 8, 9}],
       [device_type |-> "", device_id |-> << >>, driver_name |-> n_snd_hda_raw,
        available_in_rhel |-> {7, 8, 9}, maintained_in_rhel |-> {7, 8}],
       [device_type |-> "", device_id |-> << >>, driver_name |-> n_igb,
        available_in_rhel |-> {7, 8}, maintained_in_rhel |-> {7}] >>

\* The exception lists.  The class of the second pattern opens with an
\* empty range, which translate takes out.
ExcCatalogue ==
    { << >>, <<Str("snd*"), Str("hi[z-a!a-c]:?"), Str("*c*:X")>> }

LoadedCatalogue == {n_igb, n_snd_hda}

Versions == {8, 9}

MaxPci == 2
MaxMisc == 2
MaxDb == 2

\* The subsequences of s with at most n elements
SubSeqs(s, n) ==
    LET Pick(I) == [k \in 1..Cardinality(I) |->
                       s[CHOOSE i \in I : Cardinality({j \in I : j < i}) = k - 1]]
    IN  {Pick(I) : I \in {J \in SUBSET DOMAIN s : Cardinality(J) <= n}}

\* The modalias files of the PCI devices and of the CPU, which find lists too
PciFiles(blocks) ==
    [k \in DOMAIN blocks |->
        [path |-> blocks[k].Slot, modalias |-> blocks[k].modalias,
         resolve |-> SeqToSet(blocks[k].Module), link |-> blocks[k].link]]

CpuFile == [path |-> "/sys/devices/system/cpu/cpu0", modalias |-> a_cpu,
            resolve |-> {}, link |-> None]

\* Built-in modules that /sys/module may list with no device bound to them
BuiltinCatalogue == {n_snd_hda}

\* The modules the driver/module links of the files name
Links(files) ==
    {Val(files[k].link) : k \in {j \in DOMAIN files : ~IsNone(files[j].link)}}

\* get_all_modules: listing is os.listdir('/sys/module')
get_all_modules(listing) == {normalize_module_name(m) : m \in listing}

NoFunction == [a \in {} |-> TRUE]

Init ==
    /\ compat_db \in SubSeqs(DbCatalogue, MaxDb)
    /\ exc_patterns \in ExcCatalogue
    /\ skip_kmod \in BOOLEAN
    /\ target_version \in Versions
    /\ lspci \in SubSeqs(PciCatalogue, MaxPci)
    /\ \E misc \in SubSeqs(MiscCatalogue, MaxMisc) :
           sysfs = PciFiles(lspci) \o <<CpuFile>> \o misc
    /\ lsmod \in SUBSET LoadedCatalogue
    /\ \E builtin \in SUBSET BuiltinCatalogue :
           sys_module = lsmod \cup Links(sysfs) \cup builtin
    /\ kmod_index = NoFunction
    /\ pc = "start"
    /\ pci_id_entry_map = NoFunction
    /\ mod_entry_map = NoFunction
    /\ modules = {}
    /\ dev_entries = << >>
    /\ dev_modules = {}
    /\ mod_entries = << >>
    /\ kmod = "unset"
    /\ ctx = "null"
    /\ acquired = 0
    /\ released = 0
    /\ builtin_modules = {}
    /\ idx = 0
    /\ st = "unset"
    /\ st_ent = None
    /\ queries = << >>
    /\ rv_devices = << >>
    /\ rv_modules = << >>
    /\ result = << >>
    /\ reports = << >>

(***************************************************************************)
(* get_incompatible, statement by statement                                *)
(***************************************************************************)
\* The orders in which iterating the set S may give its members
Orders(S) ==
    {f \in [1..Cardinality(S) -> S] : \A i, j \in DOMAIN f : f[i] = f[j] => i = j}

\* Lines 313-321: the two indexes, the loaded modules, match_devices, and
\* mod_entries, listed in the order the set difference is iterated in.
Collect ==
    /\ pc = "start"
    /\ LET index == get_pci_id_entry_map(compat_db)
       IN  ~Raised(index) /\ pci_id_entry_map' = index.val
    /\ mod_entry_map' = get_module_entry_map(compat_db)
    /\ LET loaded == get_loaded_modules(lsmod)
           pci_devs == get_pci_devices(lspci)
           misc_devs == get_misc_devices(sysfs, loaded)
           claimed == match_dev_modules(pci_devs, misc_devs)
       IN  /\ modules' = loaded
           /\ dev_entries' = match_dev_entries(pci_devs, misc_devs,
                                               pci_id_entry_map', mod_entry_map')
           /\ dev_modules' = claimed
           /\ \E order \in Orders(loaded \ claimed) :
                  mod_entries' = [k \in DOMAIN order |->
                                     [mod |-> order[k],
                                      ent |-> Get(mod_entry_map', Some(order[k]))]]
    /\ pc' = "kmod"
    /\ UNCHANGED <<inputs, kmod, ctx, acquired, released,
                   builtin_modules, idx, st, st_ent, queries, rv_devices,
                   rv_modules, result, reports>>

\* Line 313: parse_pci_id meets a device_id that int() does not take, and
\* the run ends in the ValueError before anything is collected
IndexFails ==
    /\ pc = "start"
    /\ Raised(get_pci_id_entry_map(compat_db))
    /\ pc' = "aborted"
    /\ UNCHANGED <<inputs, pci_id_entry_map, mod_entry_map, modules, dev_entries, dev_modules, mod_entries, kmod,
                   ctx, acquired, released, builtin_modules, idx, st, st_ent,
                   queries, rv_devices, rv_modules, result, reports>>

\* Lines 323-325 with --skip-kmod: kmod is None
KModSkipped ==
    /\ pc = "kmod"
    /\ skip_kmod
    /\ kmod' = "None"
    /\ builtin_modules' = get_all_modules(sys_module) \ modules
    /\ idx' = 1
    /\ pc' = "devices"
    /\ UNCHANGED <<inputs, pci_id_entry_map, mod_entry_map, modules, dev_entries, dev_modules, mod_entries, ctx,
                   acquired, released, st, st_ent, queries,
                   rv_devices, rv_modules, result, reports>>

\* KMod.__init__: kmod_new() returns no context, and the run ends in the exception
KModNewFails ==
    /\ pc = "kmod"
    /\ ~skip_kmod
    /\ pc' = "aborted"
    /\ UNCHANGED <<inputs, pci_id_entry_map, mod_entry_map, modules, dev_entries, dev_modules, mod_entries, kmod,
                   ctx, acquired, released, builtin_modules, idx,
                   st, st_ent, queries, rv_devices, rv_modules, result, reports>>

\* KMod.__init__: kmod_new() returns a context, kmod_load_resources() fails,
\* and the run ends in the exception
KModLoadFails ==
    /\ pc = "kmod"
    /\ ~skip_kmod
    /\ ctx' = "held"
    /\ acquired' = acquired + 1
    /\ pc' = "aborted"
    /\ UNCHANGED <<inputs, pci_id_entry_map, mod_entry_map, modules, dev_entries, dev_modules, mod_entries, kmod,
                   released, builtin_modules, idx, st, st_ent,
                   queries, rv_devices, rv_modules, result, reports>>

\* Lines 323-325: KMod.__init__ succeeds
KModInit ==
    /\ pc = "kmod"
    /\ ~skip_kmod
    /\ ctx' = "held"
    /\ acquired' = acquired + 1
    /\ kmod' = "KMod"
    /\ builtin_modules' = get_all_modules(sys_module) \ modules
    /\ idx' = 1
    /\ pc' = "devices"
    /\ UNCHANGED <<inputs, pci_id_entry_map, mod_entry_map, modules, dev_entries, dev_modules, mod_entries,
                   released, st, st_ent, queries, rv_devices,
                   rv_modules, result, reports>>

\* get_incompatible_devices.append
DeviceRecord(dev, status, fmt, a, b, ent) ==
    [type |-> "device", obj |-> dev, status |-> status,
     msg |-> [fmt |-> fmt, a |-> a, b |-> b], ent |-> ent]

\* Lines 275-276 alone: the test of lines 277-278 left out
PassedOver_unbound_only(dev, builtin) == IsNone(dev.current_module)

\* Lines 275-278: a device with no entry that the loop passes over before
\* it comes to kmod
PassedOver(dev, builtin) ==
    \/ IsNone(dev.current_module)
    \/ dev.modules = {} /\ Val(dev.current_module) \notin builtin

\* One turn of the loop of get_incompatible_devices that makes no has_module call
DeviceStep ==
    /\ pc = "devices"
    /\ idx <= Len(dev_entries)
    /\ LET dev == dev_entries[idx].dev
           mod == dev_entries[idx].mod
           ent == dev_entries[idx].ent
           status == get_status(ent, target_version)
       IN  IF IsNone(ent)
           THEN /\ PassedOver(dev, builtin_modules) \/ kmod = "None"
                /\ UNCHANGED <<st, st_ent, rv_devices>>
           ELSE /\ st' = status
                /\ st_ent' = ent
                /\ rv_devices' =
                      IF status = "ok" THEN rv_devices
                      ELSE IF IsNone(mod)
                      THEN Append(rv_devices,
                                  DeviceRecord(dev, status, "Device with ID {} is {}",
                                               Val(ent).device_id, status, ent))
                      ELSE Append(rv_devices,
                                  DeviceRecord(dev, status, "Module {} is {}",
                                               Val(mod), status, ent))
    /\ idx' = idx + 1
    /\ UNCHANGED <<inputs, pc, pci_id_entry_map, mod_entry_map, modules, dev_entries, dev_modules, mod_entries,
                   kmod, ctx, acquired, released, builtin_modules,
                   queries, rv_modules, result, reports>>

\* Lines 279-284 with the test of has_module inverted
after_has_module_inverted(rv, dev, found) ==
    IF ~found THEN rv
    ELSE Append(rv, DeviceRecord(dev, "removed", "No module for {!r}",
                                 dev.modalias, "", None))

\* Lines 279-284: rv once has_module has returned found for the device
after_has_module(rv, dev, found) ==
    IF found THEN rv
    ELSE Append(rv, DeviceRecord(dev, "removed", "No module for {!r}",
                                 dev.modalias, "", None))

\* The has_module call of line 279 is reached: the device has no entry, is
\* not passed over, and kmod is a KMod
QueryReached ==
    /\ pc = "devices"
    /\ idx <= Len(dev_entries)
    /\ IsNone(dev_entries[idx].ent)
    /\ ~PassedOver(dev_entries[idx].dev, builtin_modules)
    /\ kmod = "KMod"

\* KMod.has_module: kmod_module_new_from_lookup() fails, which leaves no
\* result list, and the run ends in the exception
DeviceQueryFails ==
    /\ QueryReached
    /\ queries' = Append(queries, [dev |-> dev_entries[idx].dev, answer |-> "error"])
    /\ pc' = "aborted"
    /\ UNCHANGED <<inputs, pci_id_entry_map, mod_entry_map, modules, dev_entries, dev_modules, mod_entries, kmod,
                   ctx, acquired, released, builtin_modules, idx, st, st_ent,
                   rv_devices, rv_modules, result, reports>>

\* One turn of the loop that calls has_module: the lookup gives a list,
\* empty or not, which is destroyed before has_module returns.  What the
\* index holds for an alias is learnt at its first lookup.
DeviceQuery ==
    /\ QueryReached
    /\ LET dev == dev_entries[idx].dev
       IN  \E found \in BOOLEAN :
              /\ IF dev.modalias \in DOMAIN kmod_index
                 THEN found = kmod_index[dev.modalias] /\ UNCHANGED kmod_index
                 ELSE kmod_index' = [a \in DOMAIN kmod_index \cup {dev.modalias} |->
                                        IF a = dev.modalias THEN found
                                        ELSE kmod_index[a]]
              /\ queries' = Append(queries,
                                   [dev |-> dev,
                                    answer |-> IF found THEN "true" ELSE "false"])
              /\ rv_devices' = after_has_module(rv_devices, dev, found)
    /\ idx' = idx + 1
    /\ UNCHANGED <<compat_db, exc_patterns, skip_kmod, target_version, lspci,
                   sysfs, lsmod, sys_module, pc, pci_id_entry_map,
                   mod_entry_map, modules, dev_entries, dev_modules,
                   mod_entries, kmod, ctx, acquired, released, builtin_modules,
                   st, st_ent, rv_modules, result, reports>>

\* get_incompatible_devices returns
DevicesDone ==
    /\ pc = "devices"
    /\ idx > Len(dev_entries)
    /\ pc' = "modules"
    /\ idx' = 1
    /\ UNCHANGED <<inputs, pci_id_entry_map, mod_entry_map, modules, dev_entries, dev_modules, mod_entries, kmod,
                   ctx, acquired, released, builtin_modules, st, st_ent, queries,
                   rv_devices, rv_modules, result, reports>>

\* One turn of the loop of get_incompatible_modules
ModuleStep ==
    /\ pc = "modules"
    /\ idx <= Len(mod_entries)
    /\ LET mod == mod_entries[idx].mod
           ent == mod_entries[idx].ent
           status == get_status(ent, target_version)
       IN  /\ st' = status
           /\ st_ent' = ent
           /\ rv_modules' =
                 IF status = "ok" THEN rv_modules
                 ELSE Append(rv_modules,
                             [type |-> "module", obj |-> mod, status |-> status,
                              msg |-> [fmt |-> "", a |-> << >>, b |-> ""],
                              ent |-> ent])
    /\ idx' = idx + 1
    /\ UNCHANGED <<inputs, pc, pci_id_entry_map, mod_entry_map, modules, dev_entries, dev_modules, mod_entries,
                   kmod, ctx, acquired, released, builtin_modules, queries,
                   rv_devices, result, reports>>

\* check_exc matching a device by its current module, when it has one
check_exc_by_module(rec) ==
    LET name == IF rec.type = "module" THEN rec.obj
                ELSE IF IsNone(rec.obj.current_module) THEN rec.obj.modalias
                ELSE Val(rec.obj.current_module)
    IN  ~exc_pred(exc_patterns, name)

\* get_incompatible.check_exc
check_exc(rec) ==
    LET name == IF rec.type = "module" THEN rec.obj ELSE rec.obj.modalias
    IN  ~exc_pred(exc_patterns, name)

\* Lines 332-338: get_incompatible_modules returns, and the chain of the
\* two lists is filtered and returned
Return ==
    /\ pc = "modules"
    /\ idx > Len(mod_entries)
    /\ result' = SelectSeq(rv_devices \o rv_modules, check_exc)
    /\ reports' = Append(reports, result')
    /\ pc' = "done"
    /\ UNCHANGED <<inputs, pci_id_entry_map, mod_entry_map, modules, dev_entries, dev_modules, mod_entries, kmod,
                   ctx, acquired, released, builtin_modules, idx, st, st_ent,
                   queries, rv_devices, rv_modules>>

\* The program is run again on the same machine, with the same arguments
\* and the same files: a new process, whose variables start afresh.
MaxRuns == 2

Rerun ==
    /\ pc = "done"
    /\ Len(reports) < MaxRuns
    /\ pc' = "start"
    /\ pci_id_entry_map' = NoFunction
    /\ mod_entry_map' = NoFunction
    /\ modules' = {}
    /\ dev_entries' = << >>
    /\ dev_modules' = {}
    /\ mod_entries' = << >>
    /\ kmod' = "unset"
    /\ ctx' = "null"
    /\ acquired' = 0
    /\ released' = 0
    /\ builtin_modules' = {}
    /\ idx' = 0
    /\ st' = "unset"
    /\ st_ent' = None
    /\ queries' = << >>
    /\ rv_devices' = << >>
    /\ rv_modules' = << >>
    /\ result' = << >>
    /\ UNCHANGED <<inputs, reports>>

Next ==
    \/ Collect
    \/ IndexFails
    \/ KModSkipped
    \/ KModNewFails
    \/ KModLoadFails
    \/ KModInit
    \/ DeviceStep
    \/ DeviceQueryFails
    \/ DeviceQuery
    \/ DevicesDone
    \/ ModuleStep
    \/ Return

Spec == Init /\ [][Next]_vars

\* The runs of Spec, each followed by further runs on the same inputs
SpecRerun == Init /\ [][Next \/ Rerun]_vars

(***************************************************************************)
(* The claims                                                              *)
(***************************************************************************)
Ended == pc \in {"done", "aborted"}

\* The devices of the inventory, as the program builds them
PciDevs == get_pci_devices(lspci)

MiscDevs == get_misc_devices(sysfs, get_loaded_modules(lsmod))

\* The two indexes of a run that built them
PciIndex == pci_id_entry_map

ModuleIndex == mod_entry_map

\* The positions of dev_entries whose device is dev
EntriesOf(dev) == {k \in DOMAIN dev_entries : dev_entries[k].dev.sysfs_path = dev.sysfs_path}

\* C1: get_status(entry, target_version) gives exactly one status: ok for no
\* entry; otherwise removed exactly when the version is not in
\* available_in_rhel, unmaintained exactly when it is in available_in_rhel
\* and not in maintained_in_rhel, and ok in what remains.  A version in
\* neither set gives removed.
C1_StatusResolved ==
    st # "unset" =>
        /\ st \in Status
        /\ IsNone(st_ent) => st = "ok"
        /\ ~IsNone(st_ent) =>
              LET avail == target_version \in Val(st_ent).available_in_rhel
                  maint == target_version \in Val(st_ent).maintained_in_rhel
              IN  /\ st = "removed" <=> ~avail
                  /\ st = "unmaintained" <=> avail /\ ~maint
                  /\ st = "ok" <=> avail /\ maint
                  /\ ~avail /\ ~maint => st = "removed"

\* A status was resolved for an entry that lists the version in neither set
C1_Witness ==
    /\ st = "removed"
    /\ ~IsNone(st_ent)
    /\ target_version \notin Val(st_ent).available_in_rhel
    /\ target_version \notin Val(st_ent).maintained_in_rhel

\* The lengths of the prefixes of pci_id that are keys of the PCI index
KeyLengths(pci_id) ==
    {n \in {2, 3, 4} : ~IsNone(Get(PciIndex, pci_key(pci_id, n)))}

Longest(S) == CHOOSE n \in S : \A m \in S : m <= n

\* C2: a PCI device is looked up by its 4-, 3- and 2-element ID prefix and
\* the entry of the longest prefix that is a key is recorded, with no
\* resolved module, whatever its bound module and the module index hold; it
\* goes through module-based matching, after the non-PCI devices, exactly
\* when no prefix is a key.  With (0x8086, 0x1533) the only key, the device
\* (0x8086, 0x1533, 0, 0) resolves to that key's entry.
C2_PciPrefixMatch ==
    pc = "kmod" =>
        \A k \in DOMAIN PciDevs :
            LET dev == PciDevs[k]
                hits == KeyLengths(dev.pci_id)
            IN  /\ Cardinality(EntriesOf(dev)) = 1
                /\ \A e \in EntriesOf(dev) :
                      IF hits # {}
                      THEN /\ dev_entries[e].mod = None
                           /\ dev_entries[e].ent =
                                 Some(PciIndex[Prefix(dev.pci_id, Longest(hits))])
                           /\ \A m \in DOMAIN dev_entries :
                                 dev_entries[m].dev.kind = "misc" => e < m
                      ELSE /\ dev_entries[e].mod = dev.current_module
                           /\ dev_entries[e].ent = Get(ModuleIndex, dev.current_module)
                           /\ \A m \in DOMAIN dev_entries :
                                 dev_entries[m].dev.kind = "misc" => m < e

\* The index holds only the key (0x8086, 0x1533) and the device
\* (0x8086, 0x1533, 0, 0), bound to a module the module index would also
\* resolve, is recorded with that key's entry
C2_Witness ==
    /\ pc = "kmod"
    /\ DOMAIN PciIndex = {<<32902, 5427>>}
    /\ \E e \in DOMAIN dev_entries :
          /\ dev_entries[e].dev.kind = "pci"
          /\ dev_entries[e].dev.pci_id = <<32902, 5427, 0, 0>>
          /\ dev_entries[e].mod = None
          /\ dev_entries[e].ent = Some(PciIndex[<<32902, 5427>>])
          /\ ~IsNone(Get(ModuleIndex, dev_entries[e].dev.current_module))

\* The name an exception pattern is matched against
Target(rec) == IF rec.type = "module" THEN rec.obj ELSE rec.obj.modalias

Excepted(rec) == \E k \in DOMAIN exc_patterns : GlobMatch(exc_patterns[k], Target(rec))

\* A pattern such as nvidia*: literal characters, then one *
Literal(pat) == SubSeq(pat, 1, Len(pat) - 1)

PrefixPattern(pat) ==
    /\ pat # << >>
    /\ pat[Len(pat)] = Star
    /\ \A k \in DOMAIN Literal(pat) : Literal(pat)[k] \notin {Star, Question, LBracket}

\* What get_incompatible filters
Unfiltered == rv_devices \o rv_modules

KeptPositions == {k \in DOMAIN Unfiltered : ~Excepted(Unfiltered[k])}

\* C4: no returned record has a target (the modalias of a device record,
\* the name of a module record) that matches an exception pattern, whatever
\* its status and origin; every record whose target matches no pattern is
\* returned, in its place; with no pattern nothing is dropped.
C4_ExceptionsFiltered ==
    pc = "done" =>
        /\ \A j \in DOMAIN result : ~Excepted(result[j])
        /\ \A k \in DOMAIN exc_patterns :
              PrefixPattern(exc_patterns[k]) =>
                  \A j \in DOMAIN result :
                      ~StartsWith(Target(result[j]), Literal(exc_patterns[k]))
        /\ Len(result) = Cardinality(KeptPositions)
        /\ \A k \in KeptPositions :
              result[Cardinality({i \in KeptPositions : i <= k})] = Unfiltered[k]
        /\ exc_patterns = << >> => result = Unfiltered

\* A run dropped a device record that came from the kmod check and a module
\* record, and returned another record
C4_Witness ==
    /\ pc = "done"
    /\ result # << >>
    /\ \E k \in DOMAIN rv_devices : IsNone(rv_devices[k].ent) /\ Excepted(rv_devices[k])
    /\ \E k \in DOMAIN rv_modules : Excepted(rv_modules[k])

\* The modules in /sys/module that lsmod does not list
Builtin == get_all_modules(sys_module) \ get_loaded_modules(lsmod)

\* The positions of rv_devices whose subject is dev
RecordsOf(dev) == {k \in DOMAIN rv_devices : rv_devices[k].obj.sysfs_path = dev.sysfs_path}

QueriesOf(dev) == {k \in DOMAIN queries : queries[k].dev.sysfs_path = dev.sysfs_path}

\* The kmod check applies to a device: it has a current module, and either
\* candidate module names or a current module that is built in
CheckApplies(dev) ==
    /\ ~IsNone(dev.current_module)
    /\ dev.modules # {} \/ Val(dev.current_module) \in Builtin

DevicesReturned == pc \in {"modules", "done"}

\* C5: for a device with no entry to which the kmod check applies: with
\* --skip-kmod no record is made and no KMod is built or asked; when
\* has_module gives true for its modalias no record is made; when it gives
\* false exactly one device record is made, with status removed and a reason
\* naming the modalias.  A device with no entry never gets status
\* unmaintained.
C5_OracleOutcome ==
    DevicesReturned =>
        /\ skip_kmod => queries = << >> /\ kmod = "None" /\ acquired = 0 /\ ctx = "null"
        /\ \A e \in DOMAIN dev_entries :
              LET dev == dev_entries[e].dev
              IN  IsNone(dev_entries[e].ent) =>
                    /\ skip_kmod => RecordsOf(dev) = {}
                    /\ \A k \in RecordsOf(dev) : rv_devices[k].status # "unmaintained"
                    /\ ~skip_kmod /\ CheckApplies(dev) =>
                          /\ Cardinality(QueriesOf(dev)) = 1
                          /\ \A q \in QueriesOf(dev) :
                                /\ queries[q].answer = "true" => RecordsOf(dev) = {}
                                /\ queries[q].answer = "false" =>
                                      /\ Cardinality(RecordsOf(dev)) = 1
                                      /\ \A k \in RecordsOf(dev) :
                                            /\ rv_devices[k].type = "device"
                                            /\ rv_devices[k].status = "removed"
                                            /\ rv_devices[k].msg.fmt = "No module for {!r}"
                                            /\ rv_devices[k].msg.a = dev.modalias

\* One device was answered true and made no record, another was answered
\* false and made one
C5_Witness ==
    /\ DevicesReturned
    /\ \E q \in DOMAIN queries :
          queries[q].answer = "true" /\ RecordsOf(queries[q].dev) = {}
    /\ \E q \in DOMAIN queries :
          queries[q].answer = "false" /\ RecordsOf(queries[q].dev) # {}



\* The entry match_devices recorded for a device
EntryOf(dev) == dev_entries[CHOOSE e \in EntriesOf(dev) : TRUE].ent

OracleRecordsOf(dev) ==
    {k \in RecordsOf(dev) : rv_devices[k].msg.fmt = "No module for {!r}"}

\* C6 as stated: has_module is called for a device only when it has no
\* entry, has a current module, and has a candidate module name that is not
\* built in.
C6_Original ==
    \A q \in DOMAIN queries :
        LET dev == queries[q].dev
        IN  /\ IsNone(EntryOf(dev))
            /\ ~IsNone(dev.current_module)
            /\ \E m \in dev.modules : m \notin Builtin

\* C6, amended: has_module is called for a device only when it has no
\* entry, has a current module, and has either a candidate module name or a
\* current module that is built in (in /sys/module and not loaded); a
\* device failing any of these gets no has_module call and no record from
\* the kmod check.
C6_QueryOnlyWhenApplies ==
    /\ \A q \in DOMAIN queries :
          /\ ~skip_kmod
          /\ IsNone(EntryOf(queries[q].dev))
          /\ CheckApplies(queries[q].dev)
    /\ \A e \in DOMAIN dev_entries :
          LET dev == dev_entries[e].dev
          IN  ~(IsNone(dev_entries[e].ent) /\ CheckApplies(dev)) =>
                  QueriesOf(dev) = {} /\ OracleRecordsOf(dev) = {}

\* has_module was called for a device with no candidate module name, its
\* current module being built in, and for no device with a loaded current
\* module and no candidate name that the loop had reached
C6_Witness ==
    /\ DevicesReturned
    /\ \E q \in DOMAIN queries :
          queries[q].dev.modules = {} /\ Val(queries[q].dev.current_module) \in Builtin
    /\ \E e \in DOMAIN dev_entries :
          /\ IsNone(dev_entries[e].ent)
          /\ ~IsNone(dev_entries[e].dev.current_module)
          /\ ~CheckApplies(dev_entries[e].dev)
          /\ QueriesOf(dev_entries[e].dev) = {}

\* The place of a device in the inventory: the PCI devices as lspci lists
\* them, then the others as find lists them
Inventory == PciDevs \o MiscDevs

InventoryPlace(dev) ==
    LET inv == Inventory
    IN  CHOOSE k \in DOMAIN inv : inv[k].sysfs_path = dev.sysfs_path

\* The place of a device in the matching: the PCI devices with an ID prefix
\* in the PCI index, then the non-PCI devices, then the other PCI devices,
\* each group in inventory order
MatchPlace(dev) ==
    InventoryPlace(dev)
    + (IF dev.kind = "misc" THEN Len(Inventory)
       ELSE IF KeyLengths(dev.pci_id) = {} THEN 2 * Len(Inventory)
       ELSE 0)

DeviceRecordsFirst ==
    \A i, j \in DOMAIN result :
        result[i].type = "device" /\ result[j].type = "module" => i < j

\* C8 as stated: device records come before module records, in inventory
\* order, at most one for a device.
C8_Original ==
    pc = "done" =>
        /\ DeviceRecordsFirst
        /\ \A i, j \in DOMAIN result :
              i < j /\ result[i].type = "device" /\ result[j].type = "device"
                  => InventoryPlace(result[i].obj) < InventoryPlace(result[j].obj)

\* C8, amended: device records come before module records, at most one for
\* a device, in matching order: PCI devices matched by ID in lspci's order,
\* then non-PCI devices in find's order, then the PCI devices no ID prefix
\* matched, in lspci's order.
C8_MatchOrder ==
    pc = "done" =>
        /\ DeviceRecordsFirst
        /\ \A i, j \in DOMAIN result :
              i < j /\ result[i].type = "device" /\ result[j].type = "device"
                  => MatchPlace(result[i].obj) < MatchPlace(result[j].obj)

\* A run returned, in this order: the record of a PCI device matched by ID;
\* the records of two non-PCI devices, as find lists them; the record of a
\* PCI device that no ID prefix matched and that lspci lists before the
\* matched one; and a module record
C8_Witness ==
    /\ pc = "done"
    /\ \E i, j, k, l, n \in DOMAIN result :
          /\ i < j /\ j < k /\ k < l /\ l < n
          /\ result[i].type = "device" /\ result[i].obj.kind = "pci"
          /\ KeyLengths(result[i].obj.pci_id) # {}
          /\ result[j].type = "device" /\ result[j].obj.kind = "misc"
          /\ result[k].type = "device" /\ result[k].obj.kind = "misc"
          /\ InventoryPlace(result[j].obj) < InventoryPlace(result[k].obj)
          /\ result[l].type = "device" /\ result[l].obj.kind = "pci"
          /\ KeyLengths(result[l].obj.pci_id) = {}
          /\ InventoryPlace(result[l].obj) < InventoryPlace(result[i].obj)
          /\ result[n].type = "module"

\* The module the driver/module link of a device names, if any
BoundModule(dev) ==
    sysfs[CHOOSE k \in DOMAIN sysfs : sysfs[k].path = dev.sysfs_path].link

\* The devices that go through module-based matching
ModuleMatched(dev) == dev.kind = "misc" \/ KeyLengths(dev.pci_id) = {}

\* C3 as stated: a device in module-based matching (a non-PCI device, or a
\* PCI device no ID prefix matched) with no bound module is recorded with
\* its one candidate module name and that name's module-index entry when it
\* has exactly one candidate name and the name is a loaded module, and with
\* no module and no entry otherwise.
C3_Original ==
    pc = "kmod" =>
        \A e \in DOMAIN dev_entries :
            LET dev == dev_entries[e].dev
            IN  ModuleMatched(dev) /\ IsNone(BoundModule(dev)) =>
                    IF Cardinality(dev.modules) = 1 /\ dev.modules \subseteq modules
                    THEN \A m \in dev.modules :
                            /\ dev_entries[e].mod = Some(m)
                            /\ dev_entries[e].ent = Get(ModuleIndex, Some(m))
                    ELSE dev_entries[e].mod = None /\ dev_entries[e].ent = None

\* The module names some device of the inventory is associated with
Claimed ==
    UNION {Inventory[k].modules \cup SeqToSet(Inventory[k].current_module) :
              k \in DOMAIN Inventory}

\* C7 as stated: module records are made only for loaded modules that no
\* device claims, as a candidate name or as its current module; each such
\* module gets at most one, with the status of its module-index entry, and
\* none when it has no entry or the status is ok.
C7_Original ==
    pc = "done" =>
        /\ \A k \in DOMAIN rv_modules :
              /\ rv_modules[k].obj \in modules \ Claimed
              /\ rv_modules[k].status =
                    get_status(Get(ModuleIndex, Some(rv_modules[k].obj)), target_version)
              /\ rv_modules[k].status # "ok"
        /\ \A i, j \in DOMAIN rv_modules :
              rv_modules[i].obj = rv_modules[j].obj => i = j

\* C9 as stated: two runs on the same database, exceptions, arguments and
\* inventory return the same records in the same order.
C9_Original ==
    Len(reports) >= 2 => reports[1] = reports[2]

\* C10 as stated: a run with the oracle enabled that got the libkmod
\* context got it once and released it once before it ended, however it
\* ended.
C10_Original ==
    Ended /\ ~skip_kmod /\ acquired > 0 =>
        acquired = 1 /\ released = 1 /\ ctx = "released"

=============================================================================
